---- MODULE Spec2Model ----
(***************************************************************************)
(* Model of src/pharm/foundational_pharm.py: the two JSON-backed lookup    *)
(* utilities (is_within_therapeutic_range, check_interactions) and the two *)
(* division formulas (elimination_rate_constant, half_life).               *)
(*                                                                         *)
(* Python values are modelled as follows.                                  *)
(*   str    a sequence of one-character strings, <<"a", ",", "b">>         *)
(*   key    a tagged value [type |-> "str" | "tuple", v |-> ...]; a dict   *)
(*          loaded by json.load has keys of type "str" only                *)
(*   dict   a function from a set of keys to values                        *)
(*   float  see the section on the formulas                                *)
(***************************************************************************)
EXTENDS Integers, Sequences, FiniteSets, TLC

VARIABLES range_file, interaction_file, patient_data, call, outcome, scanned, repeated

vars == <<range_file, interaction_file, patient_data, call, outcome, scanned, repeated>>

(***************************************************************************)
(* Bounds of the model.                                                    *)
(***************************************************************************)
MaxListLen == 3
MaxConc == 2

(***************************************************************************)
(* Strings.                                                                *)
(***************************************************************************)
DrugNames == { <<"a">>, <<"A">>, <<"b">> }

Ord(c) ==
  CASE c = "," -> 44
    [] c = "A" -> 65
    [] c = "B" -> 66
    [] c = "a" -> 97
    [] c = "b" -> 98

LowerChar(c) ==
  CASE c = "A" -> "a"
    [] c = "B" -> "b"
    [] OTHER -> c

\* str.lower()
lower(s) == [i \in 1..Len(s) |-> LowerChar(s[i])]

\* s < t on str: lexicographic by code point
RECURSIVE StrLess(_, _)
StrLess(s, t) ==
  IF t = <<>> THEN FALSE
  ELSE IF s = <<>> THEN TRUE
  ELSE IF Ord(Head(s)) # Ord(Head(t)) THEN Ord(Head(s)) < Ord(Head(t))
  ELSE StrLess(Tail(s), Tail(t))

\* sorted([x, y]): stable, the second element moves first only when it is smaller
sorted2(x, y) == IF StrLess(y, x) THEN <<y, x>> ELSE <<x, y>>

(***************************************************************************)
(* Keys and dicts.                                                         *)
(***************************************************************************)
PyStr(s) == [type |-> "str", v |-> s]
PyTuple(items) == [type |-> "tuple", v |-> items]

\* ==  on keys: values of different types are never equal
PyEq(k1, k2) == k1.type = k2.type /\ k1.v = k2.v

\* key in d
PyIn(key, d) == \E k \in DOMAIN d : PyEq(k, key)

\* d[key], for a key that is in d
PyGetItem(d, key) == d[CHOOSE k \in DOMAIN d : PyEq(k, key)]

EmptyDict == [k \in {} |-> <<>>]

(***************************************************************************)
(* Files.  A file is absent, or holds the JSON object json.load returns.   *)
(***************************************************************************)
AbsentFile == [exists |-> FALSE, data |-> EmptyDict]
FileWith(d) == [exists |-> TRUE, data |-> d]

Concentrations == 0..MaxConc

RangeKeys == { PyStr(<<"a">>) }
RangeTables ==
  UNION { [K -> Concentrations \X Concentrations] : K \in SUBSET RangeKeys }

Texts == { <<"T1">>, <<"T2">> }
InteractionKeys ==
  { PyStr(<<"a", ",", "b">>), PyStr(<<"b", ",", "a">>), PyStr(<<"a", ",", "a">>) }
InteractionTables ==
  UNION { [K -> Texts] : K \in SUBSET InteractionKeys }

\* The tables the module's tests write: {"drug_a": [5.0, 15.0]} and
\* {"drug_a,drug_b": "Increased risk of toxicity"}, over the model's names,
\* numbers and texts.
TestRangeTable == [k \in { PyStr(<<"a">>) } |-> <<0, MaxConc>>]
TestInteractionTable == [k \in { PyStr(<<"a", ",", "b">>) } |-> <<"T1">>]

PatientDatas == { {}, { <<"age", 70>> } }

(***************************************************************************)
(* Outcomes of a call.                                                     *)
(***************************************************************************)
Return(v) == [kind |-> "return", value |-> v]
Raise(e, m) == [kind |-> "raise", exc |-> e, msg |-> m]
NoOutcome == [kind |-> "none"]
NoCall == [op |-> "none", args |-> <<>>]

OutcomeEq(o1, o2) ==
  /\ o1.kind = o2.kind
  /\ o1.kind = "return" => o1.value = o2.value
  /\ o1.kind = "raise" => (o1.exc = o2.exc /\ o1.msg = o2.msg)

RangeDbFile == <<"therapeutic_ranges.json">>
InteractionDbFile == <<"drug_interactions.json">>

MissingDatabase(db_file) ==
  Raise("Exception", <<"Database file '">> \o db_file \o <<"' not found.">>)

UnknownDrug(drug_name) ==
  Raise("ValueError", <<"Therapeutic range for drug '">> \o drug_name
                        \o <<"' not found in database.">>)

(***************************************************************************)
(* is_within_therapeutic_range                                             *)
(***************************************************************************)
is_within_NoLower(concentration, drug_name, pd, file) ==
  IF ~file.exists THEN MissingDatabase(RangeDbFile)
  ELSE IF ~PyIn(PyStr(drug_name), file.data) THEN UnknownDrug(drug_name)
  ELSE LET range_data == PyGetItem(file.data, PyStr(drug_name))
       IN Return(range_data[1] <= concentration /\ concentration <= range_data[2])

is_within_StrictLower(concentration, drug_name, pd, file) ==
  IF ~file.exists THEN MissingDatabase(RangeDbFile)
  ELSE IF ~PyIn(PyStr(lower(drug_name)), file.data) THEN UnknownDrug(drug_name)
  ELSE LET range_data == PyGetItem(file.data, PyStr(lower(drug_name)))
       IN Return(range_data[1] < concentration /\ concentration <= range_data[2])

is_within_DefaultFalse(concentration, drug_name, pd, file) ==
  IF ~file.exists THEN MissingDatabase(RangeDbFile)
  ELSE IF ~PyIn(PyStr(lower(drug_name)), file.data) THEN Return(FALSE)
  ELSE LET range_data == PyGetItem(file.data, PyStr(lower(drug_name)))
       IN Return(range_data[1] <= concentration /\ concentration <= range_data[2])

is_within_ElderlyNarrowed(concentration, drug_name, pd, file) ==
  IF ~file.exists THEN MissingDatabase(RangeDbFile)
  ELSE IF ~PyIn(PyStr(lower(drug_name)), file.data) THEN UnknownDrug(drug_name)
  ELSE LET range_data == PyGetItem(file.data, PyStr(lower(drug_name)))
           upper == IF <<"age", 70>> \in pd THEN range_data[2] - 1 ELSE range_data[2]
       IN Return(range_data[1] <= concentration /\ concentration <= upper)

\* The body of is_within_therapeutic_range, given the state of the file at
\* db_file.  therapeutic_ranges.get(key) is None exactly when key is not in
\* the table, the values of the table being [low, high] arrays.
is_within_therapeutic_range(concentration, drug_name, pd, file) ==
  IF ~file.exists THEN MissingDatabase(RangeDbFile)
  ELSE IF ~PyIn(PyStr(lower(drug_name)), file.data) THEN UnknownDrug(drug_name)
  ELSE LET range_data == PyGetItem(file.data, PyStr(lower(drug_name)))
       IN Return(range_data[1] <= concentration /\ concentration <= range_data[2])

(***************************************************************************)
(* check_interactions                                                      *)
(***************************************************************************)
InnerStartFromI(i) == i

\* range(i + 1, len(drug_list)): the first j of the inner loop
InnerStart(i) == i + 1

\* for j in range(InnerStart(i), n): the index pairs the inner loop visits
RECURSIVE InnerLoop(_, _, _)
InnerLoop(i, j, n) ==
  IF j >= n THEN <<>> ELSE << <<i, j>> >> \o InnerLoop(i, j + 1, n)

\* for i in range(n): the index pairs (0-based) the two loops visit, in order
RECURSIVE OuterLoop(_, _)
OuterLoop(i, n) ==
  IF i >= n THEN <<>> ELSE InnerLoop(i, InnerStart(i), n) \o OuterLoop(i + 1, n)

PairKeyJoinedUnsorted(x, y) == PyStr(lower(x) \o <<",">> \o lower(y))

\* pair = tuple(sorted([x.lower(), y.lower()]))
PairKey(x, y) == PyTuple(sorted2(lower(x), lower(y)))

\* f"Interaction between {x} and {y}: {text}"
Description(x, y, text) ==
  <<"Interaction between ">> \o x \o <<" and ">> \o y \o <<": ">> \o text

\* The descriptions appended over the visited index pairs, in order.
RECURSIVE Append_interactions(_, _, _)
Append_interactions(pairs, drug_list, interaction_pairs) ==
  IF pairs = <<>> THEN <<>>
  ELSE LET x == drug_list[Head(pairs)[1] + 1]
           y == drug_list[Head(pairs)[2] + 1]
           pair == PairKey(x, y)
           rest == Append_interactions(Tail(pairs), drug_list, interaction_pairs)
       IN IF PyIn(pair, interaction_pairs)
          THEN <<Description(x, y, PyGetItem(interaction_pairs, pair))>> \o rest
          ELSE rest

check_interactions_ShortListFirst(drug_list, file) ==
  IF Len(drug_list) < 2 THEN Return(<<>>)
  ELSE IF ~file.exists THEN MissingDatabase(InteractionDbFile)
  ELSE Return(Append_interactions(OuterLoop(0, Len(drug_list)), drug_list, file.data))

\* The body of check_interactions, given the state of the file at db_file.
check_interactions(drug_list, file) ==
  IF ~file.exists THEN MissingDatabase(InteractionDbFile)
  ELSE Return(Append_interactions(OuterLoop(0, Len(drug_list)), drug_list, file.data))

\* The index pairs a call examines: none when opening the file fails.
ScannedBy(drug_list, file) ==
  IF ~file.exists THEN <<>> ELSE OuterLoop(0, Len(drug_list))

DrugLists == UNION { [1..n -> DrugNames] : n \in 0..MaxListLen }

(***************************************************************************)
(* The state machine of the two checkers.  call and outcome hold the last  *)
(* call and what it returned or raised; scanned holds the index pairs the  *)
(* last check_interactions examined; repeated tells that the last call     *)
(* repeated the call before it, with no write to a file in between.        *)
(***************************************************************************)
Init ==
  /\ range_file = AbsentFile
  /\ interaction_file = AbsentFile
  /\ patient_data \in PatientDatas
  /\ call = NoCall
  /\ outcome = NoOutcome
  /\ scanned = <<>>
  /\ repeated = FALSE

\* The same, for the functions that take no patient_data
InitNoPatient == Init /\ patient_data = {}

SameCall(op, args) == call.op = op /\ call.args = args

\* json.dump(table, open('therapeutic_ranges.json', 'w'))
WriteRangeFile(table) ==
  /\ range_file' = FileWith(table)
  /\ call' = NoCall
  /\ outcome' = NoOutcome
  /\ scanned' = <<>>
  /\ repeated' = FALSE
  /\ UNCHANGED <<interaction_file, patient_data>>

\* json.dump(table, open('drug_interactions.json', 'w'))
WriteInteractionFile(table) ==
  /\ interaction_file' = FileWith(table)
  /\ call' = NoCall
  /\ outcome' = NoOutcome
  /\ scanned' = <<>>
  /\ repeated' = FALSE
  /\ UNCHANGED <<range_file, patient_data>>

IsWithinCall_OpenForWriting(concentration, drug_name) ==
  /\ call' = [op |-> "is_within_therapeutic_range", args |-> <<concentration, drug_name>>]
  /\ outcome' = is_within_therapeutic_range(concentration, drug_name, patient_data, range_file)
  /\ scanned' = <<>>
  /\ repeated' = SameCall("is_within_therapeutic_range", <<concentration, drug_name>>)
  /\ range_file' = FileWith(EmptyDict)
  /\ UNCHANGED <<interaction_file, patient_data>>

\* is_within_therapeutic_range(concentration, drug_name, patient_data)
IsWithinCall(concentration, drug_name) ==
  /\ call' = [op |-> "is_within_therapeutic_range", args |-> <<concentration, drug_name>>]
  /\ outcome' = is_within_therapeutic_range(concentration, drug_name, patient_data, range_file)
  /\ scanned' = <<>>
  /\ repeated' = SameCall("is_within_therapeutic_range", <<concentration, drug_name>>)
  /\ UNCHANGED <<range_file, interaction_file, patient_data>>

\* check_interactions(drug_list)
CheckInteractionsCall(drug_list) ==
  /\ call' = [op |-> "check_interactions", args |-> drug_list]
  /\ outcome' = check_interactions(drug_list, interaction_file)
  /\ scanned' = ScannedBy(drug_list, interaction_file)
  /\ repeated' = SameCall("check_interactions", drug_list)
  /\ UNCHANGED <<range_file, interaction_file, patient_data>>

\* The range checker alone, over every range table of the model.
NextRange ==
  \/ \E table \in RangeTables : WriteRangeFile(table)
  \/ \E concentration \in Concentrations, drug_name \in DrugNames :
       IsWithinCall(concentration, drug_name)

SpecRange == Init /\ [][NextRange]_vars

\* The interaction checker alone, over every interaction table of the model.
NextInter ==
  \/ \E table \in InteractionTables : WriteInteractionFile(table)
  \/ \E drug_list \in DrugLists : CheckInteractionsCall(drug_list)

SpecInter == InitNoPatient /\ [][NextInter]_vars

\* Both checkers, with the files the tests write.
Next ==
  \/ WriteRangeFile(TestRangeTable)
  \/ WriteInteractionFile(TestInteractionTable)
  \/ \E concentration \in Concentrations, drug_name \in DrugNames :
       IsWithinCall(concentration, drug_name)
  \/ \E drug_list \in DrugLists : CheckInteractionsCall(drug_list)

Spec == Init /\ [][Next]_vars

(***************************************************************************)
(* The formulas.  CL / Vd and 0.693 / k_e are divisions of Python floats   *)
(* (IEEE-754 binary64).  A float is modelled as zero, an infinity, a NaN   *)
(* or the correctly rounded value of sign * sig * 2^exp, with sig one of   *)
(* 1.0 and 0.693; the arguments are zero and the powers of two, for which  *)
(* the quotient below is the exact binary64 result: a quotient above the   *)
(* largest finite float is an infinity, and a quotient of at most half the *)
(* smallest subnormal, 2^MinExp, rounds to zero.                           *)
(***************************************************************************)
MaxExp == 1023
MinExp == -1074

Zero(s) == [cls |-> "zero", sign |-> s, sig |-> "1.0", exp |-> 0]
Inf(s) == [cls |-> "inf", sign |-> s, sig |-> "1.0", exp |-> 0]
NaN == [cls |-> "nan", sign |-> 1, sig |-> "1.0", exp |-> 0]
Fin(s, m, e) == [cls |-> "fin", sign |-> s, sig |-> m, exp |-> e]

\* The literal 0.693
C693 == Fin(1, "0.693", 0)

InputExps == { -1074, -600, -1, 0, 1, 600, 1023 }
FloatInputs == { Zero(1) } \cup { Fin(s, "1.0", e) : s \in {1, -1}, e \in InputExps }

\* x / y on floats, y zero, an infinity, a NaN or a power of two
FloatDiv(x, y) ==
  IF y.cls = "zero" THEN Raise("ZeroDivisionError", <<"float division by zero">>)
  ELSE IF x.cls = "nan" \/ y.cls = "nan" THEN Return(NaN)
  ELSE IF x.cls = "inf"
       THEN (IF y.cls = "inf" THEN Return(NaN) ELSE Return(Inf(x.sign * y.sign)))
  ELSE IF y.cls = "inf" \/ x.cls = "zero" THEN Return(Zero(x.sign * y.sign))
  ELSE LET e == x.exp - y.exp
           leading == IF x.sig = "0.693" THEN e - 1 ELSE e
       IN IF leading > MaxExp THEN Return(Inf(x.sign * y.sign))
          ELSE IF e < MinExp THEN Return(Zero(x.sign * y.sign))
          ELSE Return(Fin(x.sign * y.sign, x.sig, e))

\* return CL / Vd
elimination_rate_constant(CL, Vd) == FloatDiv(CL, Vd)

half_life_SwappedArguments(CL, Vd) ==
  LET k_e == elimination_rate_constant(Vd, CL)
  IN IF k_e.kind = "raise" THEN k_e ELSE FloatDiv(C693, k_e.value)

\* k_e = elimination_rate_constant(CL, Vd); return 0.693 / k_e
half_life(CL, Vd) ==
  LET k_e == elimination_rate_constant(CL, Vd)
  IN IF k_e.kind = "raise" THEN k_e ELSE FloatDiv(C693, k_e.value)

EliminationRateConstantCall(CL, Vd) ==
  /\ call' = [op |-> "elimination_rate_constant", args |-> <<CL, Vd>>]
  /\ outcome' = elimination_rate_constant(CL, Vd)
  /\ scanned' = <<>>
  /\ repeated' = SameCall("elimination_rate_constant", <<CL, Vd>>)
  /\ UNCHANGED <<range_file, interaction_file, patient_data>>

HalfLifeCall(CL, Vd) ==
  /\ call' = [op |-> "half_life", args |-> <<CL, Vd>>]
  /\ outcome' = half_life(CL, Vd)
  /\ scanned' = <<>>
  /\ repeated' = SameCall("half_life", <<CL, Vd>>)
  /\ UNCHANGED <<range_file, interaction_file, patient_data>>

NextPK ==
  \/ \E CL \in FloatInputs, Vd \in FloatInputs : EliminationRateConstantCall(CL, Vd)
  \/ \E CL \in FloatInputs, Vd \in FloatInputs : HalfLifeCall(CL, Vd)

SpecPK == InitNoPatient /\ [][NextPK]_vars

(***************************************************************************)
(* Vocabulary of the properties.                                           *)
(***************************************************************************)
IsRangeCall == call.op = "is_within_therapeutic_range"
IsInteractionCall == call.op = "check_interactions"

\* The key under which the interaction file stores the pair of lowercased
\* names {a, b}: the two names sorted and joined by a comma.
StoredKey(a, b) == PyStr(sorted2(a, b)[1] \o <<",">> \o sorted2(a, b)[2])

Elements(seq) == { seq[k] : k \in 1..Len(seq) }

PermutationsOf(seq) ==
  { [k \in 1..Len(seq) |-> seq[p[k]]] :
      p \in { q \in [1..Len(seq) -> 1..Len(seq)] :
                \A m, n \in 1..Len(seq) : q[m] = q[n] => m = n } }

\* The unordered pairs of names, and the texts, that a result reports
ReportedPairs(result) ==
  { {x, y} : <<x, y>> \in
      { xy \in DrugNames \X DrugNames :
          \E text \in Texts : Description(xy[1], xy[2], text) \in Elements(result) } }

ReportedTexts(result) ==
  { text \in Texts :
      \E x \in DrugNames, y \in DrugNames :
        Description(x, y, text) \in Elements(result) }

SwapCaseChar(c) ==
  CASE c = "A" -> "a"
    [] c = "a" -> "A"
    [] c = "B" -> "b"
    [] c = "b" -> "B"
    [] OTHER -> c

\* s and t differ at most in letter case
SameUpToCase(s, t) ==
  /\ Len(s) = Len(t)
  /\ \A k \in 1..Len(s) : t[k] = s[k] \/ t[k] = SwapCaseChar(s[k])

\* The same boolean, or the same kind of error
SameResultOrError(o1, o2) ==
  /\ o1.kind = o2.kind
  /\ o1.kind = "return" => o1.value = o2.value
  /\ o1.kind = "raise" => o1.exc = o2.exc

(***************************************************************************)
(* C1: a stored interaction is reported.  When the interaction file holds  *)
(* an entry for the lowercased names of drug_list[i] and drug_list[j],     *)
(* i < j, under the key the file stores it by, the result of               *)
(* check_interactions contains "Interaction between <drug_list[i]> and     *)
(* <drug_list[j]>: <text>", and for a two-element list the result is that  *)
(* one description.                                                        *)
(***************************************************************************)
C1_StoredInteractionReported ==
  (IsInteractionCall /\ interaction_file.exists) =>
    LET drug_list == call.args
        table == interaction_file.data
    IN /\ outcome.kind = "return"
       /\ \A i \in 1..Len(drug_list), j \in 1..Len(drug_list) :
            LET key == StoredKey(lower(drug_list[i]), lower(drug_list[j]))
            IN (i < j /\ PyIn(key, table)) =>
                 /\ Description(drug_list[i], drug_list[j], PyGetItem(table, key))
                      \in Elements(outcome.value)
                 /\ Len(drug_list) = 2 =>
                      outcome.value =
                        <<Description(drug_list[i], drug_list[j], PyGetItem(table, key))>>

(***************************************************************************)
(* C2: check_interactions is symmetric in the order of its input.  For     *)
(* every permutation of the list of the call, the result is empty exactly  *)
(* when the result of the call is, and reports the same unordered pairs of *)
(* names and the same texts.                                               *)
(***************************************************************************)
C2_OrderSymmetric ==
  (IsInteractionCall /\ interaction_file.exists) =>
    \A permuted \in PermutationsOf(call.args) :
      LET other == check_interactions(permuted, interaction_file)
      IN /\ other.kind = "return" /\ outcome.kind = "return"
         /\ (other.value = <<>>) <=> (outcome.value = <<>>)
         /\ ReportedPairs(other.value) = ReportedPairs(outcome.value)
         /\ ReportedTexts(other.value) = ReportedTexts(outcome.value)

\* A call on a two-element list in descending order, whose pair is stored
C2_Witness ==
  /\ IsInteractionCall /\ interaction_file.exists
  /\ call.args = << <<"b">>, <<"A">> >>
  /\ PyIn(StoredKey(<<"a">>, <<"b">>), interaction_file.data)
  /\ outcome.kind = "return"

(***************************************************************************)
(* C7: check_interactions examines only index pairs (i, j) with i < j,     *)
(* each at most once; with the file present a list of length 0 or 1 gives  *)
(* the empty sequence, and a list of length n gives at most n*(n-1)/2      *)
(* descriptions, at most one for each index pair examined.                 *)
(***************************************************************************)
C7_OnlyDistinctIndexPairs ==
  IsInteractionCall =>
    LET n == Len(call.args)
    IN /\ \A k \in 1..Len(scanned) :
            /\ 0 <= scanned[k][1] /\ scanned[k][1] < scanned[k][2] /\ scanned[k][2] < n
       /\ \A k, m \in 1..Len(scanned) : scanned[k] = scanned[m] => k = m
       /\ interaction_file.exists =>
            /\ outcome.kind = "return"
            /\ Len(outcome.value) <= Len(scanned)
            /\ 2 * Len(outcome.value) <= n * (n - 1)
            /\ n <= 1 => outcome.value = <<>>

\* A call on a list of the greatest length that holds a name twice
C7_Witness ==
  /\ IsInteractionCall /\ interaction_file.exists
  /\ Len(call.args) = MaxListLen
  /\ call.args[1] = call.args[2]
  /\ 2 * Len(scanned) = MaxListLen * (MaxListLen - 1)
  /\ outcome.kind = "return"

(***************************************************************************)
(* C3 as stated: for every table, every drug in it and every               *)
(* concentration, is_within_therapeutic_range returns the truth value of   *)
(* low <= concentration <= high, which is true at low, at high and         *)
(* strictly between them, and false below low and above high.              *)
(***************************************************************************)
C3_AsStated ==
  (IsRangeCall /\ range_file.exists
     /\ PyIn(PyStr(lower(call.args[2])), range_file.data)) =>
    LET concentration == call.args[1]
        entry == PyGetItem(range_file.data, PyStr(lower(call.args[2])))
        low == entry[1]
        high == entry[2]
    IN /\ outcome.kind = "return"
       /\ outcome.value = (low <= concentration /\ concentration <= high)
       /\ (concentration = low \/ concentration = high) => outcome.value = TRUE
       /\ (low < concentration /\ concentration < high) => outcome.value = TRUE
       /\ (concentration < low \/ concentration > high) => outcome.value = FALSE

(***************************************************************************)
(* C3 as amended: the result is the truth value of                         *)
(* low <= concentration <= high; it is true strictly between low and high, *)
(* false below low and above high, and true at low and at high when the    *)
(* entry has low <= high.                                                  *)
(***************************************************************************)
C3_InclusiveRange ==
  (IsRangeCall /\ range_file.exists
     /\ PyIn(PyStr(lower(call.args[2])), range_file.data)) =>
    LET concentration == call.args[1]
        entry == PyGetItem(range_file.data, PyStr(lower(call.args[2])))
        low == entry[1]
        high == entry[2]
    IN /\ outcome.kind = "return"
       /\ outcome.value = (low <= concentration /\ concentration <= high)
       /\ (low <= high /\ (concentration = low \/ concentration = high)) =>
            outcome.value = TRUE
       /\ (low < concentration /\ concentration < high) => outcome.value = TRUE
       /\ (concentration < low \/ concentration > high) => outcome.value = FALSE

\* A call at the low end of an entry with low < high, found in range
C3_Witness ==
  /\ IsRangeCall /\ range_file.exists
  /\ PyIn(PyStr(lower(call.args[2])), range_file.data)
  /\ LET entry == PyGetItem(range_file.data, PyStr(lower(call.args[2])))
     IN entry[1] < entry[2] /\ call.args[1] = entry[1]
  /\ outcome.kind = "return" /\ outcome.value = TRUE

(***************************************************************************)
(* C4: the lookup is case-insensitive.  For every drug name that differs   *)
(* from the name of the call only in letter case, the same concentration   *)
(* and the same file give the same boolean or the same kind of error.      *)
(***************************************************************************)
C4_CaseInsensitive ==
  IsRangeCall =>
    \A other_name \in DrugNames :
      SameUpToCase(call.args[2], other_name) =>
        SameResultOrError(
          is_within_therapeutic_range(call.args[1], other_name, patient_data, range_file),
          outcome)

\* A call that names in upper case a drug the table holds in lower case
C4_Witness ==
  /\ IsRangeCall /\ range_file.exists
  /\ call.args[2] = <<"A">>
  /\ PyIn(PyStr(<<"a">>), range_file.data)
  /\ outcome.kind = "return" /\ outcome.value = TRUE

(***************************************************************************)
(* C5: when the range file exists and has no entry for the lowercased drug *)
(* name, the call ends in the unknown-drug error (ValueError), whatever    *)
(* the concentration; it returns no value, and the error is of another     *)
(* kind than the one raised for an absent file.                            *)
(***************************************************************************)
C5_UnknownDrugRaises ==
  (IsRangeCall /\ range_file.exists
     /\ ~PyIn(PyStr(lower(call.args[2])), range_file.data)) =>
    /\ outcome.kind = "raise"
    /\ outcome.exc = "ValueError"
    /\ outcome.exc # MissingDatabase(RangeDbFile).exc

\* A call for a drug that a non-empty table does not hold
C5_Witness ==
  /\ IsRangeCall /\ range_file.exists
  /\ DOMAIN range_file.data # {}
  /\ ~PyIn(PyStr(lower(call.args[2])), range_file.data)
  /\ outcome.kind = "raise"

(***************************************************************************)
(* C6: when the file is absent, both checkers end in the missing-database  *)
(* error before any lookup: is_within_therapeutic_range for every drug     *)
(* name (not the unknown-drug error), check_interactions for every list,   *)
(* the empty and the one-element list included, with no pair examined.     *)
(***************************************************************************)
C6_MissingDatabaseFirst ==
  /\ (IsRangeCall /\ ~range_file.exists) =>
       /\ OutcomeEq(outcome, MissingDatabase(RangeDbFile))
       /\ outcome.exc # UnknownDrug(call.args[2]).exc
  /\ (IsInteractionCall /\ ~interaction_file.exists) =>
       /\ OutcomeEq(outcome, MissingDatabase(InteractionDbFile))
       /\ scanned = <<>>

\* A call of check_interactions on the empty list with the file absent
C6_Witness ==
  /\ IsInteractionCall /\ ~interaction_file.exists
  /\ call.args = <<>>
  /\ outcome.kind = "raise"

(***************************************************************************)
(* C8: the checkers keep no hidden state.  A call of either checker,       *)
(* whether it returns or raises, leaves both files as they are, and a call *)
(* that repeats the call before it, with the files unchanged, has the same *)
(* outcome.                                                                *)
(***************************************************************************)
C8_NoHiddenState ==
  [][ (call'.op = "is_within_therapeutic_range" \/ call'.op = "check_interactions") =>
        /\ range_file' = range_file
        /\ interaction_file' = interaction_file
        /\ repeated' => OutcomeEq(outcome', outcome) ]_vars

\* A failing call repeated with the range file present
C8_Witness ==
  /\ repeated /\ IsRangeCall /\ range_file.exists
  /\ outcome.kind = "raise"

(***************************************************************************)
(* C10: patient_data has no influence.  A call of                          *)
(* is_within_therapeutic_range leaves patient_data as it is, and its       *)
(* outcome is the one the same call has with any other patient_data.       *)
(***************************************************************************)
C10_PatientDataIgnored ==
  [][ call'.op = "is_within_therapeutic_range" =>
        /\ patient_data' = patient_data
        /\ \A pd \in PatientDatas :
             OutcomeEq(
               is_within_therapeutic_range(call'.args[1], call'.args[2], pd, range_file'),
               outcome') ]_vars

\* A call with non-empty patient_data, at the high end of the range
C10_Witness ==
  /\ IsRangeCall /\ range_file.exists
  /\ patient_data # {}
  /\ PyIn(PyStr(lower(call.args[2])), range_file.data)
  /\ call.args[1] = PyGetItem(range_file.data, PyStr(lower(call.args[2])))[2]
  /\ outcome.kind = "return" /\ outcome.value = TRUE

(***************************************************************************)
(* Vocabulary of the properties of the formulas.                           *)
(***************************************************************************)
IsZero(x) == x.cls = "zero"
IsDivisionError(o) == o.kind = "raise" /\ o.exc = "ZeroDivisionError"

\* The float quotient CL / Vd of two non-zero arguments is zero: it is at
\* most half the smallest subnormal
QuotientUnderflows(CL, Vd) ==
  ~IsZero(CL) /\ ~IsZero(Vd) /\ CL.exp - Vd.exp < MinExp

\* What elimination_rate_constant returns when Vd is not zero: CL / Vd
ExpectedRate(CL, Vd) ==
  IF IsZero(CL) \/ QuotientUnderflows(CL, Vd) THEN Zero(CL.sign * Vd.sign)
  ELSE IF CL.exp - Vd.exp > MaxExp THEN Inf(CL.sign * Vd.sign)
  ELSE Fin(CL.sign * Vd.sign, "1.0", CL.exp - Vd.exp)

\* What half_life returns when the rate k_e is not zero: 0.693 / k_e
ExpectedHalfLife(k_e) ==
  IF k_e.cls = "inf" THEN Zero(k_e.sign)
  ELSE IF (0 - k_e.exp) - 1 > MaxExp THEN Inf(k_e.sign)
  ELSE Fin(k_e.sign, "0.693", 0 - k_e.exp)

(***************************************************************************)
(* C9 as stated: half_life(CL, Vd) fails with a division error exactly     *)
(* when CL = 0 or Vd = 0 and otherwise returns 0.693 / (CL / Vd);          *)
(* elimination_rate_constant(CL, Vd) fails exactly when Vd = 0 and         *)
(* otherwise returns CL / Vd, which is 0 when CL = 0; negative arguments   *)
(* are not rejected.                                                       *)
(***************************************************************************)
C9_AsStated ==
  /\ call.op = "half_life" =>
       LET CL == call.args[1]
           Vd == call.args[2]
       IN /\ IsDivisionError(outcome) <=> (IsZero(CL) \/ IsZero(Vd))
          /\ ~IsDivisionError(outcome) =>
               outcome = Return(ExpectedHalfLife(ExpectedRate(CL, Vd)))
  /\ call.op = "elimination_rate_constant" =>
       LET CL == call.args[1]
           Vd == call.args[2]
       IN /\ IsDivisionError(outcome) <=> IsZero(Vd)
          /\ ~IsDivisionError(outcome) =>
               /\ outcome = Return(ExpectedRate(CL, Vd))
               /\ IsZero(CL) => IsZero(outcome.value)

(***************************************************************************)
(* C9 as amended: half_life(CL, Vd) fails with a division error exactly    *)
(* when Vd = 0 or the float quotient CL / Vd is zero, which it is when     *)
(* CL = 0 and also when the quotient of two non-zero arguments underflows  *)
(* to zero; otherwise it returns 0.693 / (CL / Vd).                        *)
(* elimination_rate_constant(CL, Vd) fails exactly when Vd = 0 and         *)
(* otherwise returns CL / Vd, which is 0 when CL = 0; negative arguments   *)
(* are not rejected.                                                       *)
(***************************************************************************)
C9_DivisionErrors ==
  /\ call.op = "half_life" =>
       LET CL == call.args[1]
           Vd == call.args[2]
       IN /\ IsDivisionError(outcome) <=>
               (IsZero(Vd) \/ IsZero(CL) \/ QuotientUnderflows(CL, Vd))
          /\ ~IsDivisionError(outcome) =>
               outcome = Return(ExpectedHalfLife(ExpectedRate(CL, Vd)))
  /\ call.op = "elimination_rate_constant" =>
       LET CL == call.args[1]
           Vd == call.args[2]
       IN /\ IsDivisionError(outcome) <=> IsZero(Vd)
          /\ ~IsDivisionError(outcome) =>
               /\ outcome = Return(ExpectedRate(CL, Vd))
               /\ IsZero(CL) => IsZero(outcome.value)

\* half_life fails on two non-zero arguments, one of them negative
C9_Witness ==
  /\ call.op = "half_life"
  /\ ~IsZero(call.args[1]) /\ ~IsZero(call.args[2])
  /\ call.args[1].sign = -1
  /\ IsDivisionError(outcome)

====
